---- MODULE Spec2Model ----
(***************************************************************************)
(* Model of the user store of crud-webdev: the reducer of UserContext, the *)
(* actions of UserProvider, its two localStorage effects, and the          *)
(* record-level validation of UserService; and of the useForm hook with    *)
(* the rules and the initial values UserPage gives it.                     *)
(*                                                                         *)
(* JavaScript strings are sequences of one-character strings, so that the  *)
(* regular expressions of the code are computed, not assumed.  A user      *)
(* record is a function from the keys it has to their values; a key the    *)
(* object does not have is outside its DOMAIN.  Millisecond times          *)
(* (Date.now(), new Date()) are integers; toISOString() renders one        *)
(* instant as one string, so the integer stands for the ISO string.        *)
(***************************************************************************)
EXTENDS Integers, Sequences, FiniteSets, TLC

(***************************************************************************)
(* Bounds of the exploration.                                              *)
(***************************************************************************)
\* the number of milliseconds the clock may advance during a session
MaxTicks == 1
\* the number of calls of addUser, updateUser and deleteUser in a session
MaxCalls == 2
\* the number of operations of the form hook callers invoke in a session
MaxEvents == 3

(***************************************************************************)
(* Strings.                                                                *)
(***************************************************************************)
Whitespace == {" ", "\t"}
Digits == {"0", "1", "2", "3", "4", "5", "6", "7", "8", "9"}

\* String.prototype.trim : drop the leading and the trailing whitespace
RECURSIVE trimStart(_)
trimStart(s) ==
  IF s = <<>> THEN <<>>
  ELSE IF Head(s) \in Whitespace THEN trimStart(Tail(s)) ELSE s

RECURSIVE trimEnd(_)
trimEnd(s) ==
  IF s = <<>> THEN <<>>
  ELSE IF s[Len(s)] \in Whitespace THEN trimEnd(SubSeq(s, 1, Len(s) - 1)) ELSE s

trim(s) == trimEnd(trimStart(s))

\* phone.replace(/\s/g, '') : drop every whitespace character
RECURSIVE stripWhitespace(_)
stripWhitespace(s) ==
  IF s = <<>> THEN <<>>
  ELSE IF Head(s) \in Whitespace THEN stripWhitespace(Tail(s))
       ELSE <<Head(s)>> \o stripWhitespace(Tail(s))

\* the characters of s are all in the class cls
AllIn(s, cls) == \A i \in 1..Len(s) : s[i] \in cls
\* [^\s@]+ : one or more characters, none of them whitespace or '@'
NoSpaceNoAt(s) == Len(s) >= 1 /\ \A i \in 1..Len(s) : s[i] \notin Whitespace \cup {"@"}

(***************************************************************************)
(* UserService.                                                            *)
(***************************************************************************)
\* /^[^\s@]+@[^\s@]+\.[^\s@]+$/.test(email)
isValidEmail(email) ==
  \E a \in 1..Len(email) : \E d \in 1..Len(email) :
     /\ a < d
     /\ email[a] = "@"
     /\ email[d] = "."
     /\ NoSpaceNoAt(SubSeq(email, 1, a - 1))
     /\ NoSpaceNoAt(SubSeq(email, a + 1, d - 1))
     /\ NoSpaceNoAt(SubSeq(email, d + 1, Len(email)))

\* the same test without the anchor at the end: /^(\+351)?[0-9]{9}/
isValidPhoneUnanchored(phone) ==
  LET p == stripWhitespace(phone)
      nineDigits(q) == Len(q) = 9 /\ AllIn(q, Digits)
  IN  \/ Len(p) >= 9 /\ nineDigits(SubSeq(p, 1, 9))
      \/ /\ Len(p) >= 13
         /\ SubSeq(p, 1, 4) = <<"+", "3", "5", "1">>
         /\ nineDigits(SubSeq(p, 5, 13))

\* /^(\+351)?[0-9]{9}$/.test(phone.replace(/\s/g, ''))
isValidPhone(phone) ==
  LET p == stripWhitespace(phone)
      nineDigits(q) == Len(q) = 9 /\ AllIn(q, Digits)
  IN  \/ nineDigits(p)
      \/ /\ Len(p) = 13
         /\ SubSeq(p, 1, 4) = <<"+", "3", "5", "1">>
         /\ nineDigits(SubSeq(p, 5, 13))

\* the messages of validateUser (written without their diacritics)
MsgNameRequired == "Nome e obrigatorio"
MsgEmailRequired == "Email e obrigatorio"
MsgEmailFormat == "Email deve ter formato valido"
MsgPhoneRequired == "Telefone e obrigatorio"
MsgPhoneFormat == "Telefone deve ter formato valido"
MsgUserTypesRequired == "Selecione pelo menos um tipo de utilizador"

\* !userData.f?.trim() : the field is missing, or empty once trimmed
Blank(userData, f) == f \notin DOMAIN userData \/ trim(userData[f]) = <<>>

\* the fields validateUser records an error for
FailingFields(userData) ==
  {f \in {"name", "email", "phone"} : Blank(userData, f)}
  \cup (IF ~Blank(userData, "email") /\ ~isValidEmail(userData.email) THEN {"email"} ELSE {})
  \cup (IF ~Blank(userData, "phone") /\ ~isValidPhone(userData.phone) THEN {"phone"} ELSE {})
  \cup (IF "userTypes" \notin DOMAIN userData \/ Len(userData.userTypes) = 0
        THEN {"userTypes"} ELSE {})

validateUser(userData) ==
  LET message(f) ==
        CASE f = "name" -> MsgNameRequired
          [] f = "email" -> IF Blank(userData, "email") THEN MsgEmailRequired ELSE MsgEmailFormat
          [] f = "phone" -> IF Blank(userData, "phone") THEN MsgPhoneRequired ELSE MsgPhoneFormat
          [] OTHER -> MsgUserTypesRequired
      errors == [f \in FailingFields(userData) |-> message(f)]
  IN  [isValid |-> DOMAIN errors = {}, errors |-> errors]


\* Date.now().toString(36): the digits of n in radix 36
Base36 == <<"0", "1", "2", "3", "4", "5", "6", "7", "8", "9", "a", "b", "c",
            "d", "e", "f", "g", "h", "i", "j", "k", "l", "m", "n", "o", "p",
            "q", "r", "s", "t", "u", "v", "w", "x", "y", "z">>

\* Number.prototype.toString() : the decimal digits of n
RECURSIVE toString10(_)
toString10(n) ==
  IF n < 10 THEN <<Base36[n + 1]>>
  ELSE toString10(n \div 10) \o <<Base36[(n % 10) + 1]>>

RECURSIVE toString36(_)
toString36(n) ==
  IF n < 36 THEN <<Base36[n + 1]>>
  ELSE toString36(n \div 36) \o <<Base36[(n % 36) + 1]>>

\* Date.now().toString(36) + Math.random().toString(36).substring(2, 7):
\* time is the millisecond clock, random the characters Math.random() gave
generateId(time, random) == toString36(time) \o random

(***************************************************************************)
(* JSON text, as the sequence of its tokens.                               *)
(***************************************************************************)
Tok(t, k, v) == [tok |-> t, key |-> k, val |-> v]
Punct(t) == Tok(t, "", <<>>)

\* the order in which the keys of a record are written
KeyOrder == <<"id", "name", "userTypes", "email", "password", "phone",
              "createdAt", "updatedAt">>

\* JSON.stringify of one record: { key: value, ... }
stringifyRecord(r) ==
  LET RECURSIVE fields(_)
      fields(i) ==
        IF i > Len(KeyOrder) THEN <<>>
        ELSE (IF KeyOrder[i] \in DOMAIN r
              THEN <<Tok("field", KeyOrder[i], r[KeyOrder[i]])>> ELSE <<>>)
             \o fields(i + 1)
  IN  <<Punct("{")>> \o fields(1) \o <<Punct("}")>>

\* the values state.users can hold: an array of records, or what
\* JSON.parse made of a slot that held no array
ArrayOf(items) == [t |-> "array", items |-> items]
NonArray(t) == [t |-> t, items |-> <<>>]

\* JSON.stringify(value)
stringify(value) ==
  LET RECURSIVE records(_)
      records(i) ==
        IF i > Len(value.items) THEN <<>>
        ELSE stringifyRecord(value.items[i]) \o records(i + 1)
  IN  CASE value.t = "array" -> <<Punct("[")>> \o records(1) \o <<Punct("]")>>
        [] value.t = "object" -> <<Punct("{"), Punct("}")>>
        [] OTHER -> <<Punct(value.t)>>

\* the outcome of JSON.parse: a value, or a SyntaxError
Parsed(value) == [ok |-> TRUE, value |-> value]
SyntaxError == [ok |-> FALSE, value |-> NonArray("null")]

\* the position of the first token t of toks, 0 when there is none
FirstIndex(toks, t) ==
  IF \E i \in 1..Len(toks) : toks[i].tok = t
  THEN CHOOSE i \in 1..Len(toks) :
         toks[i].tok = t /\ \A j \in 1..(i - 1) : toks[j].tok # t
  ELSE 0

\* the object that the field tokens fs spell: a later key overrides
objectOf(fs) ==
  [k \in {fs[i].key : i \in 1..Len(fs)} |->
     fs[CHOOSE i \in 1..Len(fs) :
          fs[i].key = k /\ \A j \in (i + 1)..Len(fs) : fs[j].key # k].val]

\* the elements of an array, toks being what follows its '['
RECURSIVE parseElements(_, _)
parseElements(toks, items) ==
  IF toks = <<>> THEN SyntaxError
  ELSE IF Head(toks).tok = "]"
       THEN IF Len(toks) = 1 THEN Parsed(ArrayOf(items)) ELSE SyntaxError
  ELSE IF Head(toks).tok = "{"
       THEN LET close == FirstIndex(toks, "}")
                fs == SubSeq(toks, 2, close - 1)
            IN  IF close = 0 \/ \E i \in 1..Len(fs) : fs[i].tok # "field"
                THEN SyntaxError
                ELSE parseElements(SubSeq(toks, close + 1, Len(toks)),
                                   Append(items, objectOf(fs)))
  ELSE SyntaxError

\* JSON.parse(text)
parse(text) ==
  IF text = <<>> THEN SyntaxError
  ELSE CASE Head(text).tok = "[" -> parseElements(Tail(text), <<>>)
         [] Head(text).tok = "{" ->
              IF Len(text) >= 2 /\ FirstIndex(text, "}") = Len(text)
                 /\ \A i \in 2..(Len(text) - 1) : text[i].tok = "field"
              THEN Parsed(NonArray("object")) ELSE SyntaxError
         [] Head(text).tok \in {"number", "null"} ->
              IF Len(text) = 1 THEN Parsed(NonArray(Head(text).tok)) ELSE SyntaxError
         [] OTHER -> SyntaxError


(***************************************************************************)
(* The state of UserProvider and its environment.                          *)
(***************************************************************************)
VARIABLES
  users,        \* state.users
  error,        \* state.error
  slot,         \* localStorage['crud-users']
  now,          \* the millisecond clock: Date.now(), new Date()
  loadPending,  \* the load effect of the mount has not run yet
  queued,       \* the dispatch of the load effect, not rendered yet
  savePending,  \* the save effect is scheduled: state.users changed
  crashed,      \* a TypeError escaped a render or an effect
  lastCall,     \* the last action a caller invoked, its id and whether it threw
  calls,        \* the number of actions callers have invoked
  startSlot     \* what the slot held when the application started

storeVars == <<users, error, slot, now, loadPending, queued, savePending, crashed,
               lastCall, calls, startSlot>>

\* the state of the useForm hook of UserPage
VARIABLES
  values,         \* useState(initialValues)
  errors,         \* useState({}) : field -> message, or null once cleared
  touched,        \* useState({}) : the fields whose entry is true
  isSubmitting,   \* useState(false)
  initialValues,  \* the initialValues argument of the latest render
  constructedWith, \* the initialValues argument of the first render
  inFlight,       \* the onSubmit calls that have not settled: what each was given
  formCall,       \* the last operation of the hook a caller invoked, and its result
  events          \* the number of operations callers have invoked

formVars == <<values, errors, touched, isSubmitting, initialValues, constructedWith,
              inFlight, formCall, events>>

\* a function of the code applied on its own
VARIABLES
  argument,       \* what the function is given
  returned        \* what it returned, once it has been applied

pureVars == <<argument, returned>>

\* UserPage, the component that holds the form
VARIABLES
  params,         \* useParams() : the id of the URL, when it has one
  editingId,      \* useState(currentUser?.id || null)
  page            \* "closed" before UserPage mounts, "open", "left" once it navigated

pageVars == <<params, editingId, page>>

vars == <<storeVars, formVars, pureVars, pageVars>>

\* times are counted from the creation date of the seed records
SeedCreatedAt == 0
\* the clock when the session starts
ClockStart == 100000

\* a key the object does not have reads as undefined
Undefined == <<"undefined">>
Get(u, k) == IF k \in DOMAIN u THEN u[k] ELSE Undefined

\* { ...a, ...b }
Spread(a, b) ==
  [k \in DOMAIN a \cup DOMAIN b |-> IF k \in DOMAIN b THEN b[k] ELSE a[k]]

\* state.error = null, or the errors of validateUser
NoError == [set |-> FALSE, errors |-> [f \in {} |-> ""]]
ErrorOf(fieldErrors) == [set |-> TRUE, errors |-> fieldErrors]

initialState ==
  [users |-> ArrayOf(<<
     [id |-> <<"1">>,
      name |-> <<"A", "u", "g", "u", "s", "t", "o", " ", "C", "h", "a", "g", "a", "s">>,
      userTypes |-> <<"Web Developer", "UI/UX Designer">>,
      email |-> <<"a", "u", "g", "u", "s", "t", "o", ".", "c", "h", "a", "g", "a", "s", "@", "c", "r", "u", "d", ".", "c", "o", "m">>,
      password |-> <<"*", "*", "*", "*", "*", "*", "*", "*">>,
      phone |-> <<"+", "3", "5", "1", " ", "9", "1", "6", " ", "5", "3", "4", " ", "6", "1", "3">>,
      createdAt |-> SeedCreatedAt],
     [id |-> <<"2">>,
      name |-> <<"J", "o", "a", "o", " ", "S", "i", "l", "v", "a">>,
      userTypes |-> <<"Project Manager">>,
      email |-> <<"j", "o", "a", "o", ".", "s", "i", "l", "v", "a", "@", "c", "r", "u", "d", ".", "c", "o", "m">>,
      password |-> <<"*", "*", "*", "*", "*", "*", "*", "*">>,
      phone |-> <<"+", "3", "5", "1", " ", "9", "3", "4", " ", "1", "2", "3", " ", "4", "5", "6">>,
      createdAt |-> SeedCreatedAt]>>),
   error |-> NoError]

\* the spread, the map and the filter of the reducer throw a TypeError
\* when state.users is not an array
ReducerThrows(state, action) ==
  /\ action.type \in {"ADD_USER", "UPDATE_USER", "DELETE_USER"}
  /\ state.users.t # "array"

\* case SET_USERS
reduceSetUsers(state, action) ==
  [state EXCEPT !.users = action.payload]

\* case ADD_USER: [...state.users, action.payload]
reduceAddUser(state, action) ==
  [users |-> ArrayOf(Append(state.users.items, action.payload)),
   error |-> NoError]

\* an UPDATE_USER case that merges the payload into the record: {...u, ...payload}
reduceUpdateUserMerging(state, action) ==
  LET merge(u) ==
        IF Get(u, "id") = Get(action.payload, "id") THEN Spread(u, action.payload) ELSE u
      RECURSIVE map(_)
      map(items) ==
        IF items = <<>> THEN <<>> ELSE <<merge(Head(items))>> \o map(Tail(items))
  IN  [users |-> ArrayOf(map(state.users.items)),
       error |-> NoError]

\* case UPDATE_USER: state.users.map(u => u.id === payload.id ? payload : u)
reduceUpdateUser(state, action) ==
  LET replace(u) ==
        IF Get(u, "id") = Get(action.payload, "id") THEN action.payload ELSE u
      RECURSIVE map(_)
      map(items) ==
        IF items = <<>> THEN <<>> ELSE <<replace(Head(items))>> \o map(Tail(items))
  IN  [users |-> ArrayOf(map(state.users.items)),
       error |-> NoError]

\* a DELETE_USER case that splices at findIndex: users.splice(index, 1) with
\* index = -1, when no record has the id, removes the last record
reduceDeleteUserSplicing(state, action) ==
  LET items == state.users.items
      found == {i \in 1..Len(items) : Get(items[i], "id") = action.payload}
      index == IF found = {} THEN Len(items)
               ELSE CHOOSE i \in found : \A j \in found : i <= j
  IN  [users |-> ArrayOf(SubSeq(items, 1, index - 1) \o SubSeq(items, index + 1, Len(items))),
       error |-> NoError]

\* case DELETE_USER: state.users.filter(u => u.id !== action.payload)
reduceDeleteUser(state, action) ==
  LET keep(u) == Get(u, "id") # action.payload
      RECURSIVE filter(_)
      filter(items) ==
        IF items = <<>> THEN <<>>
        ELSE (IF keep(Head(items)) THEN <<Head(items)>> ELSE <<>>) \o filter(Tail(items))
  IN  [users |-> ArrayOf(filter(state.users.items)),
       error |-> NoError]

\* a SET_ERROR case that spreads initialState instead of state
reduceSetErrorOverInitialState(state, action) ==
  [users |-> initialState.users, error |-> ErrorOf(action.payload)]

\* case SET_ERROR
reduceSetError(state, action) ==
  [state EXCEPT !.error = ErrorOf(action.payload)]

userReducer(state, action) ==
  CASE action.type = "SET_USERS" -> reduceSetUsers(state, action)
    [] action.type = "ADD_USER" -> reduceAddUser(state, action)
    [] action.type = "UPDATE_USER" -> reduceUpdateUser(state, action)
    [] action.type = "DELETE_USER" -> reduceDeleteUser(state, action)
    [] action.type = "SET_ERROR" -> reduceSetError(state, action)
    [] OTHER -> state

\* the actions whose reducer case builds a new state.users array, which is
\* what the dependency list [state.users] of the save effect compares
ReplacesUsers(action) ==
  action.type \in {"SET_USERS", "ADD_USER", "UPDATE_USER", "DELETE_USER"}

\* dispatch(action) and the render that follows it: the reducer runs in the
\* render, where a TypeError it throws unmounts the application
Dispatch(action) ==
  LET state == [users |-> users, error |-> error]
      next == userReducer(state, action)
  IN  IF ReducerThrows(state, action)
      THEN /\ crashed' = TRUE
           /\ UNCHANGED <<users, error, savePending>>
      ELSE /\ users' = next.users
           /\ error' = next.error
           /\ savePending' = (savePending \/ ReplacesUsers(action))
           /\ UNCHANGED crashed

NoDispatch == [has |-> FALSE, action |-> [type |-> "NONE", payload |-> NonArray("null")]]
Queue(action) == [has |-> TRUE, action |-> action]

\* localStorage.getItem: null when the slot is missing
Missing == [present |-> FALSE, text |-> <<>>]
Holding(text) == [present |-> TRUE, text |-> text]

(***************************************************************************)
(* The effects of UserProvider.                                            *)
(***************************************************************************)
\* a load effect that parses savedUsers || '[]': an empty collection when
\* the slot is missing
loadDispatchDefaultingToEmpty(savedUsers) ==
  IF savedUsers.present /\ savedUsers.text # <<>>
  THEN LET result == parse(savedUsers.text)
       IN  IF result.ok
           THEN Queue([type |-> "SET_USERS", payload |-> result.value])
           ELSE NoDispatch
  ELSE Queue([type |-> "SET_USERS", payload |-> ArrayOf(<<>>)])

\* the body of the load effect, savedUsers being what getItem returned:
\* what it dispatches, if it dispatches.  A SyntaxError of JSON.parse is
\* caught and logged
loadDispatch(savedUsers) ==
  IF savedUsers.present /\ savedUsers.text # <<>>
  THEN LET result == parse(savedUsers.text)
       IN  IF result.ok
           THEN Queue([type |-> "SET_USERS", payload |-> result.value])
           ELSE NoDispatch
  ELSE NoDispatch

\* useEffect(() => {...}, []) : read the slot once, when the provider mounts
LoadEffect ==
  /\ loadPending /\ ~crashed
  /\ loadPending' = FALSE
  /\ queued' = loadDispatch(slot)
  /\ UNCHANGED <<users, error, slot, now, savePending, crashed, lastCall, calls, startSlot, formVars, pureVars, pageVars>>

\* the render of what the load effect dispatched; it follows the effects
\* of the mount
Render ==
  /\ queued.has /\ ~loadPending /\ ~savePending /\ ~crashed
  /\ Dispatch(queued.action)
  /\ queued' = NoDispatch
  /\ UNCHANGED <<slot, now, loadPending, lastCall, calls, startSlot, formVars, pureVars, pageVars>>

\* useEffect(() => {...}, [state.users]) : after the mount and after every
\* render in which state.users is another array.  null.length throws;
\* the length of an object or of a number is undefined, and not > 0
SaveEffect ==
  /\ savePending /\ ~loadPending /\ ~crashed
  /\ savePending' = FALSE
  /\ IF users.t = "null"
     THEN crashed' = TRUE /\ UNCHANGED slot
     ELSE /\ IF users.t = "array" /\ Len(users.items) > 0
             THEN slot' = Holding(stringify(users))
             ELSE UNCHANGED slot
          /\ UNCHANGED crashed
  /\ UNCHANGED <<users, error, now, loadPending, queued, lastCall, calls, startSlot, formVars, pureVars, pageVars>>

\* state.users once a provider has mounted over the slot savedUsers, run
\* its effects and rendered what the load effect dispatched
InitializedFrom(savedUsers) ==
  LET loaded == loadDispatch(savedUsers)
  IN  IF loaded.has THEN userReducer(initialState, loaded.action).users
      ELSE initialState.users

(***************************************************************************)
(* The actions of UserProvider.                                            *)
(***************************************************************************)
\* callers reach the actions from event handlers, which run once the effects
\* of the last render have run
Ready == ~loadPending /\ ~queued.has /\ ~savePending /\ ~crashed

\* throw new Error('Validation failed') : the object a failing action raises
ValidationFailed == [name |-> "Error", message |-> "Validation failed"]

\* raised: what the call threw to its caller
Call(op, id, threw) ==
  [op |-> op, id |-> id, threw |-> threw,
   raised |-> IF threw THEN ValidationFailed ELSE [name |-> "none"]]

\* one more call, of the MaxCalls the exploration follows
Called == calls < MaxCalls /\ calls' = calls + 1

\* an addUser that dispatches ADD_USER without looking at the validation
addUserUngated(userData, random) ==
  LET newUser == Spread(userData, [id |-> generateId(now, random), createdAt |-> now])
  IN  /\ Ready /\ Called
      /\ Dispatch([type |-> "ADD_USER", payload |-> newUser])
      /\ lastCall' = Call("addUser", Undefined, FALSE)
      /\ UNCHANGED <<slot, now, loadPending, queued, startSlot, formVars, pureVars, pageVars>>

\* random: the characters Math.random() contributes to the generated id
addUser(userData, random) ==
  LET validation == validateUser(userData)
      newUser == Spread(userData, [id |-> generateId(now, random), createdAt |-> now])
  IN  /\ Ready /\ Called
      /\ IF ~validation.isValid
         THEN /\ Dispatch([type |-> "SET_ERROR", payload |-> validation.errors])
              /\ lastCall' = Call("addUser", Undefined, TRUE)
         ELSE /\ Dispatch([type |-> "ADD_USER", payload |-> newUser])
              /\ lastCall' = Call("addUser", Undefined, FALSE)
      /\ UNCHANGED <<slot, now, loadPending, queued, startSlot, formVars, pureVars, pageVars>>

updateUser(id, userData) ==
  LET validation == validateUser(userData)
      updatedUser == Spread(userData, [id |-> id, updatedAt |-> now])
  IN  /\ Ready /\ Called
      /\ IF ~validation.isValid
         THEN /\ Dispatch([type |-> "SET_ERROR", payload |-> validation.errors])
              /\ lastCall' = Call("updateUser", id, TRUE)
         ELSE /\ Dispatch([type |-> "UPDATE_USER", payload |-> updatedUser])
              /\ lastCall' = Call("updateUser", id, FALSE)
      /\ UNCHANGED <<slot, now, loadPending, queued, startSlot, formVars, pureVars, pageVars>>

deleteUser(id) ==
  /\ Ready /\ Called
  /\ Dispatch([type |-> "DELETE_USER", payload |-> id])
  /\ lastCall' = Call("deleteUser", id, FALSE)
  /\ UNCHANGED <<slot, now, loadPending, queued, startSlot, formVars, pureVars, pageVars>>

\* a millisecond passes.  Only the actions read the clock, so the model lets
\* it advance where an action can follow
Tick ==
  /\ Ready
  /\ now < ClockStart + MaxTicks
  /\ now' = now + 1
  /\ UNCHANGED <<users, error, slot, loadPending, queued, savePending, crashed,
               lastCall, calls, startSlot, formVars, pureVars, pageVars>>

(***************************************************************************)
(* The validation rules of useForm.  The rule-bearing fields of UserPage   *)
(* are text inputs: the values the rules are given are strings, or         *)
(* undefined.                                                              *)
(***************************************************************************)
\* null : what a rule returns when it passes, and what a cleared error is
Null == "null"
\* the messages of the rules (written without their diacritics)
MsgRequired == "Este campo e obrigatorio"
MsgEmailInvalid == "Email invalido"
MsgPhoneInvalid == "Telefone invalido"

\* !value : undefined and the empty string are falsy
Falsy(value) == value = Undefined \/ value = <<>>

\* validationRules.required
ruleRequired(value) ==
  IF Falsy(value) THEN MsgRequired
  ELSE IF trim(value) = <<>> THEN MsgRequired ELSE Null

\* validationRules.email : /^[^\s@]+@[^\s@]+\.[^\s@]+$/
ruleEmail(value) ==
  IF Falsy(value) THEN Null
  ELSE IF \E a \in 1..Len(value) : \E d \in (a + 1)..Len(value) :
             /\ value[a] = "@"
             /\ value[d] = "."
             /\ NoSpaceNoAt(SubSeq(value, 1, a - 1))
             /\ NoSpaceNoAt(SubSeq(value, a + 1, d - 1))
             /\ NoSpaceNoAt(SubSeq(value, d + 1, Len(value)))
       THEN Null ELSE MsgEmailInvalid

\* [\d\s\-\+\(\)] : the characters phoneRegex lets through
PhoneChars == Digits \cup Whitespace \cup {"-", "+", "(", ")"}

\* value.replace(/\D/g, '') : drop every character that is not a digit
cleanPhone(value) == SelectSeq(value, LAMBDA c : c \in Digits)

\* a phone rule that asks for more than 10 digits
rulePhoneOverTen(value) ==
  IF Falsy(value) THEN Null
  ELSE IF Len(cleanPhone(value)) > 10 /\ Len(value) >= 1 /\ AllIn(value, PhoneChars)
       THEN Null ELSE MsgPhoneInvalid

\* validationRules.phone
rulePhone(value) ==
  IF Falsy(value) THEN Null
  ELSE IF Len(cleanPhone(value)) >= 10 /\ Len(value) >= 1 /\ AllIn(value, PhoneChars)
       THEN Null ELSE MsgPhoneInvalid

\* rule(value, values) : the rules of validationRules read their first
\* argument only
applyRule(rule, value) ==
  CASE rule = "required" -> ruleRequired(value)
    [] rule = "email" -> ruleEmail(value)
    [] rule = "phone" -> rulePhone(value)

(***************************************************************************)
(* UserPage: what it gives to useForm.                                     *)
(***************************************************************************)
\* const formValidationRules = {...} : the rules of each rule-bearing field,
\* in the order the object lists them
formValidationRules ==
  [name |-> <<"required">>,
   email |-> <<"required", "email">>,
   phone |-> <<"required", "phone">>]

\* Object.keys(validationRules)
RuleFields == DOMAIN formValidationRules

\* const initialValues = {...} : from currentUser, or empty without one
InitialValuesOf(currentUser) ==
  LET orElse(k, d) == IF Falsy(Get(currentUser, k)) THEN d ELSE currentUser[k]
  IN  [name |-> orElse("name", <<>>),
       userTypes |-> orElse("userTypes", <<>>),
       email |-> orElse("email", <<>>),
       password |-> orElse("password", <<>>),
       phone |-> orElse("phone", <<>>)]

\* users.find(...) found no record, or the URL has no id
NoCurrentUser == [k \in {} |-> <<>>]

(***************************************************************************)
(* useForm.                                                                *)
(***************************************************************************)
\* errors[name], undefined when the object has no such key
ErrorAt(errs, f) == IF f \in DOMAIN errs THEN errs[f] ELSE "undefined"
\* if (error) : a message is truthy, null and undefined are not
IsMessage(e) == e # Null /\ e # "undefined"
\* {} : the errors object without keys
NoErrors == [f \in {} |-> Null]
\* { ...prev, [name]: v }
With(obj, k, v) == [j \in DOMAIN obj \cup {k} |-> IF j = k THEN v ELSE obj[j]]

\* for (const rule of rules) : the message of the first rule that fails
RECURSIVE firstError(_, _)
firstError(rules, value) ==
  IF rules = <<>> THEN Null
  ELSE LET e == applyRule(Head(rules), value)
       IN  IF IsMessage(e) THEN e ELSE firstError(Tail(rules), value)

\* the newErrors that validateForm builds from the values vs
newErrorsOf(vs) ==
  LET failing == {f \in RuleFields : IsMessage(firstError(formValidationRules[f], Get(vs, f)))}
  IN  [f \in failing |-> firstError(formValidationRules[f], Get(vs, f))]

\* what a caller of the hook invoked last.  returned: the message, "null",
\* "true" or "false" it returned; invoked: what onSubmit was called with
FormCall(op, f, ret, invoked) ==
  [op |-> op, name |-> f, returned |-> ret, invoked |-> invoked]

\* one more operation, of the MaxEvents the exploration follows
Invoked == events < MaxEvents /\ events' = events + 1

\* a setValue that leaves the error of the field as it is
setValueKeepingError(f, value) ==
  /\ values' = With(values, f, value)
  /\ UNCHANGED <<errors, touched, isSubmitting, initialValues, constructedWith, inFlight>>

\* a setValue that runs the rules of the field on the new value
setValueRevalidating(f, value) ==
  /\ values' = With(values, f, value)
  /\ errors' = IF f \in RuleFields
               THEN With(errors, f, firstError(formValidationRules[f], value))
               ELSE errors
  /\ UNCHANGED <<touched, isSubmitting, initialValues, constructedWith, inFlight>>

\* setValue(name, value) : the state it sets
setValue(f, value) ==
  /\ values' = With(values, f, value)
  /\ errors' = IF IsMessage(ErrorAt(errors, f)) THEN With(errors, f, Null) ELSE errors
  /\ UNCHANGED <<touched, isSubmitting, initialValues, constructedWith, inFlight>>

\* handleChange(e), e.target being target
handleChange(target) ==
  /\ Invoked
  /\ setValue(target.name, IF target.type = "checkbox" THEN target.checked ELSE target.value)
  /\ formCall' = FormCall("handleChange", target.name, "undefined", <<>>)
  /\ UNCHANGED <<storeVars, pureVars, pageVars>>

\* handleUserTypeChange(type) of UserPage : toggle type in values.userTypes
handleUserTypeChange(type) ==
  LET currentTypes == IF Falsy(Get(values, "userTypes")) THEN <<>> ELSE values.userTypes
      newTypes == IF \E i \in 1..Len(currentTypes) : currentTypes[i] = type
                  THEN SelectSeq(currentTypes, LAMBDA t : t # type)
                  ELSE Append(currentTypes, type)
  IN  /\ Invoked
      /\ setValue("userTypes", newTypes)
      /\ formCall' = FormCall("handleUserTypeChange", "userTypes", "undefined", <<>>)
      /\ UNCHANGED <<storeVars, pureVars, pageVars>>

\* validateField(name, value) : the errors it sets
validateFieldSets(f, value) ==
  IF f \in RuleFields
  THEN errors' = With(errors, f, firstError(formValidationRules[f], value))
  ELSE UNCHANGED errors

\* validateField(name, value) : what it returns
validateFieldReturns(f, value) ==
  IF f \in RuleFields THEN firstError(formValidationRules[f], value) ELSE Null

\* handleBlur(e), e.target.name being f
handleBlur(f) ==
  /\ Invoked
  /\ touched' = touched \cup {f}
  /\ validateFieldSets(f, Get(values, f))
  /\ formCall' = FormCall("handleBlur", f, "undefined", <<>>)
  /\ UNCHANGED <<values, isSubmitting, initialValues, constructedWith, inFlight, storeVars, pureVars, pageVars>>

\* validateField(name, value), called by a user of the hook
validateField(f, value) ==
  /\ Invoked
  /\ validateFieldSets(f, value)
  /\ formCall' = FormCall("validateField", f, validateFieldReturns(f, value), <<>>)
  /\ UNCHANGED <<values, touched, isSubmitting, initialValues, constructedWith, inFlight, storeVars, pureVars, pageVars>>

\* a validateForm that merges its result into the errors there are
validateFormMerging ==
  LET newErrors == newErrorsOf(values)
      merged == [f \in DOMAIN errors \cup DOMAIN newErrors |->
                   IF f \in DOMAIN newErrors THEN newErrors[f] ELSE errors[f]]
  IN  /\ Invoked
      /\ errors' = merged
      /\ formCall' = FormCall("validateForm", "", IF DOMAIN newErrors = {} THEN "true" ELSE "false", <<>>)
      /\ UNCHANGED <<values, touched, isSubmitting, initialValues, constructedWith, inFlight, storeVars, pureVars, pageVars>>

\* validateForm()
validateForm ==
  LET newErrors == newErrorsOf(values)
  IN  /\ Invoked
      /\ errors' = newErrors
      /\ formCall' = FormCall("validateForm", "", IF DOMAIN newErrors = {} THEN "true" ELSE "false", <<>>)
      /\ UNCHANGED <<values, touched, isSubmitting, initialValues, constructedWith, inFlight, storeVars, pureVars, pageVars>>

\* a resetForm without setIsSubmitting(false)
resetFormKeepingFlag ==
  /\ Invoked
  /\ values' = initialValues
  /\ errors' = NoErrors
  /\ touched' = {}
  /\ formCall' = FormCall("resetForm", "", "undefined", <<>>)
  /\ UNCHANGED <<isSubmitting, initialValues, constructedWith, inFlight, storeVars, pureVars, pageVars>>

\* resetForm() : initialValues is the one of the render the callback is from
resetForm ==
  /\ Invoked
  /\ values' = initialValues
  /\ errors' = NoErrors
  /\ touched' = {}
  /\ isSubmitting' = FALSE
  /\ formCall' = FormCall("resetForm", "", "undefined", <<>>)
  /\ UNCHANGED <<initialValues, constructedWith, inFlight, storeVars, pureVars, pageVars>>

\* a submit handler without setTouched(allTouched)
handleSubmitWithoutTouching ==
  LET newErrors == newErrorsOf(values)
      isValid == DOMAIN newErrors = {}
  IN  /\ Invoked
      /\ errors' = newErrors
      /\ IF ~isValid
         THEN /\ UNCHANGED <<isSubmitting, inFlight>>
              /\ formCall' = FormCall("handleSubmit", "", "undefined", <<>>)
         ELSE /\ isSubmitting' = TRUE
              /\ inFlight' = Append(inFlight, values)
              /\ formCall' = FormCall("handleSubmit", "", "undefined", <<values>>)
      /\ UNCHANGED <<values, touched, initialValues, constructedWith, storeVars, pureVars, pageVars>>

\* a submit handler whose try block starts before validateForm: finally
\* resets the flag after an invalid submit too
handleSubmitAlwaysFinally ==
  LET newErrors == newErrorsOf(values)
      isValid == DOMAIN newErrors = {}
  IN  /\ Invoked
      /\ touched' = RuleFields
      /\ errors' = newErrors
      /\ IF ~isValid
         THEN /\ isSubmitting' = FALSE
              /\ UNCHANGED inFlight
              /\ formCall' = FormCall("handleSubmit", "", "undefined", <<>>)
         ELSE /\ isSubmitting' = TRUE
              /\ inFlight' = Append(inFlight, values)
              /\ formCall' = FormCall("handleSubmit", "", "undefined", <<values>>)
      /\ UNCHANGED <<values, initialValues, constructedWith, storeVars, pureVars, pageVars>>

\* a submit handler that calls onSubmit whatever validateForm returned
handleSubmitUngated ==
  /\ Invoked
  /\ touched' = RuleFields
  /\ errors' = newErrorsOf(values)
  /\ isSubmitting' = TRUE
  /\ inFlight' = Append(inFlight, values)
  /\ formCall' = FormCall("handleSubmit", "", "undefined", <<values>>)
  /\ UNCHANGED <<values, initialValues, constructedWith, storeVars, pureVars, pageVars>>

\* the handler handleSubmit(onSubmit) returns, invoked on a submit event, up
\* to the await: onSubmit(values) has been called and has not settled
handleSubmit ==
  LET allTouched == RuleFields
      newErrors == newErrorsOf(values)
      isValid == DOMAIN newErrors = {}
  IN  /\ Invoked
      /\ touched' = allTouched
      /\ errors' = newErrors
      /\ IF ~isValid
         THEN /\ UNCHANGED <<isSubmitting, inFlight>>
              /\ formCall' = FormCall("handleSubmit", "", "undefined", <<>>)
         ELSE /\ isSubmitting' = TRUE
              /\ inFlight' = Append(inFlight, values)
              /\ formCall' = FormCall("handleSubmit", "", "undefined", <<values>>)
      /\ UNCHANGED <<values, initialValues, constructedWith, storeVars, pureVars, pageVars>>

\* a completion that also clears the errors of the form
onSubmitSettledClearingErrors(i, outcome) ==
  /\ i \in 1..Len(inFlight)
  /\ inFlight' = [j \in 1..(Len(inFlight) - 1) |-> IF j < i THEN inFlight[j] ELSE inFlight[j + 1]]
  /\ isSubmitting' = FALSE
  /\ errors' = NoErrors
  /\ touched' = {}
  /\ formCall' = FormCall("settled", outcome, "fulfilled", <<>>)
  /\ UNCHANGED <<values, initialValues, constructedWith, events, storeVars, pureVars, pageVars>>

\* a handler without catch and finally: a rejection escapes it and leaves
\* the flag set
onSubmitSettledUncaught(i, outcome) ==
  /\ i \in 1..Len(inFlight)
  /\ inFlight' = [j \in 1..(Len(inFlight) - 1) |-> IF j < i THEN inFlight[j] ELSE inFlight[j + 1]]
  /\ isSubmitting' = (IF outcome = "rejected" THEN isSubmitting ELSE FALSE)
  /\ formCall' = FormCall("settled", outcome, outcome, <<>>)
  /\ UNCHANGED <<values, errors, touched, initialValues, constructedWith, events, storeVars, pureVars, pageVars>>

\* the rest of that handler, once the i-th pending onSubmit call settled:
\* catch logs a rejection, finally resets the flag, and the handler's own
\* promise fulfils
onSubmitSettled(i, outcome) ==
  /\ i \in 1..Len(inFlight)
  /\ inFlight' = [j \in 1..(Len(inFlight) - 1) |-> IF j < i THEN inFlight[j] ELSE inFlight[j + 1]]
  /\ isSubmitting' = FALSE
  /\ formCall' = FormCall("settled", outcome, "fulfilled", <<>>)
  /\ UNCHANGED <<values, errors, touched, initialValues, constructedWith, events, storeVars, pureVars, pageVars>>

\* UserPage renders again with another currentUser: useForm is called with
\* the initialValues of that render, and keeps its state
renderWith(newInitialValues) ==
  /\ Invoked
  /\ newInitialValues # initialValues
  /\ initialValues' = newInitialValues
  /\ formCall' = FormCall("render", "", "undefined", <<>>)
  /\ UNCHANGED <<values, errors, touched, isSubmitting, constructedWith, inFlight,
                 storeVars, pureVars, pageVars>>

\* a getFieldProps that hands over errors[name] whether touched or not
getFieldPropsUngated(f) ==
  [name |-> f,
   value |-> IF Falsy(Get(values, f)) THEN <<>> ELSE values[f],
   error |-> ErrorAt(errors, f)]

\* getFieldProps(name) : the value and the error it hands to the input
getFieldProps(f) ==
  [name |-> f,
   value |-> IF Falsy(Get(values, f)) THEN <<>> ELSE values[f],
   error |-> IF f \in touched THEN ErrorAt(errors, f) ELSE Null]

\* a hasErrors that counts the keys of errors
hasErrorsCountingKeys == DOMAIN errors # {}

\* hasErrors: Object.values(errors).some(error => error !== null)
hasErrors == \E f \in DOMAIN errors : errors[f] # Null

\* isValid: no rules, or !errors[key] for every key of validationRules
isValid ==
  \/ RuleFields = {}
  \/ \A key \in RuleFields : ~IsMessage(ErrorAt(errors, key))

\* the hook after its first render with the initialValues iv
\* the editingId of creation mode
NullId == <<"null">>

\* UserPage is not mounted
PageClosed ==
  /\ params = [k \in {} |-> <<>>]
  /\ editingId = NullId
  /\ page = "closed"

Constructed(iv) ==
  /\ values = iv
  /\ errors = NoErrors
  /\ touched = {}
  /\ isSubmitting = FALSE
  /\ initialValues = iv
  /\ constructedWith = iv
  /\ inFlight = <<>>
  /\ formCall = FormCall("none", "", "undefined", <<>>)
  /\ events = 0

\* no function is being applied on its own
NotApplied == argument = <<>> /\ returned = [applied |-> FALSE]

(***************************************************************************)
(* The inputs of the exploration.                                          *)
(***************************************************************************)
NameAna == <<"A", "n", "a">>
NameBea == <<"B", "e", "a">>
EmailAna == <<"a", "n", "a", "@", "x", ".", "c", "o", "m">>
EmailBea == <<"b", "e", "a", "@", "y", ".", "p", "t">>
PhoneAna == <<"+", "3", "5", "1", "9", "1", "1", "2", "2", "2", "3", "3", "3">>
PhoneBea == <<"9", "1", "2", " ", "3", "4", "5", " ", "6", "7", "8">>

\* what callers pass to addUser and updateUser
UserDataSamples == <<
  \* the values of the user form, with the id UserPage adds to them
  [name |-> NameAna, userTypes |-> <<"Architect">>, email |-> EmailAna,
   password |-> <<>>, phone |-> PhoneAna, id |-> <<"1">>],
  \* a caller that passes neither password nor id, and a createdAt of its own
  [name |-> NameBea, userTypes |-> <<"QA Engineer">>, email |-> EmailBea,
   phone |-> PhoneBea, createdAt |-> SeedCreatedAt],
  \* every field fails
  [name |-> <<>>, userTypes |-> <<>>, email |-> <<"b", "a", "d">>, phone |-> <<"1", "2", "3">>],
  \* only the phone fails
  [name |-> NameAna, userTypes |-> <<"Architect">>, email |-> EmailAna,
   password |-> <<>>, phone |-> <<"(", "1", "2", "3", ")", " ", "4", "5", "6", "-", "7", "8", "9", "0">>]>>

\* what Math.random().toString(36).substring(2, 7) can give
RandomSamples == {<<"x", "k", "2", "y", "3">>, <<"a", "b", "0", "1", "c">>}

\* an id no record has
MissingId == <<"n", "o", "n", "e">>
\* the ids a caller may pass: those of the collection, one it never had, and
\* the one of the call before (a caller may repeat its deleteUser)
CallerIds ==
  {Get(users.items[i], "id") : i \in 1..Len(users.items)}
    \cup {MissingId}
    \cup (IF lastCall.op = "deleteUser" THEN {lastCall.id} ELSE {})

\* a collection persisted by an earlier session
PersistedUsers ==
  ArrayOf(<<[id |-> generateId(ClockStart - 1, <<"x", "k", "2", "y", "3">>), name |-> NameBea,
             userTypes |-> <<"QA Engineer">>, email |-> EmailBea,
             password |-> <<>>, phone |-> PhoneBea, createdAt |-> ClockStart - 1]>>)

\* what the slot may hold when the application starts
SlotSamples == <<
  Missing,
  Holding(stringify(PersistedUsers)),
  Holding(<<>>),
  Holding(<<Punct("["), Punct("{")>>),
  Holding(stringify(NonArray("object"))),
  Holding(stringify(NonArray("number"))),
  Holding(stringify(NonArray("null")))>>

(***************************************************************************)
(* The specification.                                                      *)
(***************************************************************************)
\* the provider has rendered initialState; its effects are still to run
Init ==
  /\ users = initialState.users
  /\ error = initialState.error
  /\ \E i \in 1..Len(SlotSamples) : slot = SlotSamples[i]
  /\ now = ClockStart
  /\ loadPending = TRUE
  /\ queued = NoDispatch
  /\ savePending = TRUE
  /\ crashed = FALSE
  /\ lastCall = Call("none", Undefined, FALSE)
  /\ calls = 0
  /\ startSlot = slot
  /\ Constructed(InitialValuesOf(NoCurrentUser))
  /\ NotApplied
  /\ PageClosed

Next ==
  \/ LoadEffect
  \/ Render
  \/ SaveEffect
  \/ \E i \in 1..Len(UserDataSamples) : \E random \in RandomSamples :
       addUser(UserDataSamples[i], random)
  \/ \E id \in CallerIds : \E i \in 1..Len(UserDataSamples) :
       updateUser(id, UserDataSamples[i])
  \/ \E id \in CallerIds : deleteUser(id)
  \/ Tick

Spec == Init /\ [][Next]_vars

(***************************************************************************)
(* The form of UserPage: the hook, and the callers of its operations.      *)
(***************************************************************************)
\* the inputs of the form: what their change events carry
ChangeSamples == {
  [name |-> "name", value |-> <<>>, type |-> "text"],
  [name |-> "name", value |-> NameAna, type |-> "text"],
  [name |-> "email", value |-> <<>>, type |-> "email"],
  [name |-> "email", value |-> <<"b", "a", "d">>, type |-> "email"],
  [name |-> "email", value |-> EmailAna, type |-> "email"],
  [name |-> "password", value |-> <<"s">>, type |-> "password"],
  [name |-> "phone", value |-> <<"1", "2", "3">>, type |-> "tel"],
  [name |-> "phone", value |-> PhoneAna, type |-> "tel"]}

\* the fields of the form
Fields == {"name", "userTypes", "email", "password", "phone"}
\* the fields UserPage renders with getFieldProps, whose inputs blur
InputFields == {"name", "email", "password", "phone"}

\* the initialValues UserPage computes: without a current user, and from
\* the first record of the seed
InitialValuesSamples ==
  {InitialValuesOf(NoCurrentUser), InitialValuesOf(initialState.users.items[1])}

\* the provider is mounted over a missing slot, and no action is called
StoreIdle ==
  /\ users = initialState.users
  /\ error = initialState.error
  /\ slot = Missing
  /\ now = ClockStart
  /\ loadPending = FALSE
  /\ queued = NoDispatch
  /\ savePending = FALSE
  /\ crashed = FALSE
  /\ lastCall = Call("none", Undefined, FALSE)
  /\ calls = 0
  /\ startSlot = Missing

FormInit ==
  /\ \E iv \in InitialValuesSamples : Constructed(iv)
  /\ StoreIdle
  /\ NotApplied
  /\ PageClosed

FormNext ==
  \/ \E target \in ChangeSamples : handleChange(target)
  \/ handleUserTypeChange("Architect")
  \/ \E f \in InputFields : handleBlur(f)
  \/ \E f \in Fields : validateField(f, Get(values, f))
  \/ validateForm
  \/ resetForm
  \/ handleSubmit
  \/ \E i \in 1..Len(inFlight) : \E outcome \in {"fulfilled", "rejected"} :
       onSubmitSettled(i, outcome)
  \/ \E iv \in InitialValuesSamples : renderWith(iv)

FormSpec == FormInit /\ [][FormNext]_vars


(***************************************************************************)
(* UserService.validateUser applied on its own.                            *)
(***************************************************************************)
\* a key the record may lack
Absent == <<"absent">>
NameSamples == {Absent, <<>>, <<" ">>, NameAna, <<" ", "A", "n", "a", " ">>}
EmailSamples == {
  Absent, <<>>, <<" ", " ">>,
  <<"b", "a", "d">>,
  <<"a", "@", "b">>,
  <<"a", "@", "b", ".", "c">>,
  <<" ", "a", "@", "b", ".", "c">>,
  <<"a", " ", "z", "@", "b", ".", "c">>,
  <<"a", "@", "b", "@", "c", ".", "d">>,
  <<"@", "b", ".", "c">>,
  <<"a", "@", ".", "c">>,
  <<"a", "@", "b", ".">>,
  <<"a", ".", "z", "@", "b">>,
  <<"a", "@", "b", ".", "c", ".", "d">>}
PhoneSamples == {
  Absent, <<>>, <<" ">>,
  <<"1", "2", "3">>,
  <<"9", "1", "2", "3", "4", "5", "6", "7", "8">>,
  PhoneBea,
  PhoneAna,
  <<"+", "3", "5", "1", " ", "9", "1", "6", " ", "5", "3", "4", " ", "6", "1", "3">>,
  <<"(", "1", "2", "3", ")", " ", "4", "5", "6", "-", "7", "8", "9", "0">>,
  <<"9", "1", "2", "3", "4", "5", "6", "7", "8", "9">>,
  <<"+", "3", "5", "1", "9", "1", "2", "3", "4", "5", "6", "7">>,
  <<"3", "5", "1", "9", "1", "2", "3", "4", "5", "6", "7", "8">>,
  <<"+", "3", "5", "2", "9", "1", "2", "3", "4", "5", "6", "7", "8">>,
  <<"9", "1", "2", "3", "4", "5", "6", "7", "a">>,
  <<"+", "3", "5", "1", "9", "1", "2", "3", "4", "5", "6", "7", "8", "9">>}
UserTypesSamples == {Absent, <<>>, <<"Architect">>, <<"Architect", "QA Engineer">>}

\* the record with the keys whose sample is not Absent
RecordOf(n, e, p, t) ==
  LET all == [name |-> n, email |-> e, phone |-> p, userTypes |-> t]
  IN  [k \in {j \in DOMAIN all : all[j] # Absent} |-> all[k]]

NotReturned == [applied |-> FALSE]
Returning(v) == [applied |-> TRUE, value |-> v]

ValidateUserInit ==
  /\ \E n \in NameSamples : \E e \in EmailSamples : \E p \in PhoneSamples :
       \E t \in UserTypesSamples : argument = RecordOf(n, e, p, t)
  /\ returned = NotReturned
  /\ StoreIdle
  /\ Constructed(InitialValuesOf(NoCurrentUser))
  /\ PageClosed

\* a caller applies UserService.validateUser to the record
CallValidateUser ==
  /\ ~returned.applied
  /\ returned' = Returning(validateUser(argument))
  /\ UNCHANGED <<argument, storeVars, formVars, pageVars>>

ValidateUserNext == CallValidateUser

ValidateUserSpec == ValidateUserInit /\ [][ValidateUserNext]_vars

(***************************************************************************)
(* UserPage under the provider: the page mounts with the provider, when    *)
(* the application is loaded at its URL, or later, when the user           *)
(* navigates to it.                                                        *)
(***************************************************************************)
\* id ? users.find(u => u.id === id) : null
currentUserOf(us, ps) ==
  IF Falsy(Get(ps, "id")) THEN NoCurrentUser
  ELSE LET found == {i \in 1..Len(us.items) : Get(us.items[i], "id") = ps.id}
       IN  IF found = {} THEN NoCurrentUser
           ELSE us.items[CHOOSE i \in found : \A j \in found : i <= j]

\* currentUser?.id || null
editingIdOf(currentUser) ==
  IF Falsy(Get(currentUser, "id")) THEN NullId ELSE currentUser.id

\* the first render of UserPage at /user (no id) or /user/:id: editingId and
\* the state of useForm are initialised from the users of that render
OpenUserPage(ps) ==
  LET currentUser == currentUserOf(users, ps)
      iv == InitialValuesOf(currentUser)
  IN  /\ page = "closed"
      /\ \/ loadPending /\ savePending /\ calls = 0
         \/ Ready
      /\ params' = ps
      /\ editingId' = editingIdOf(currentUser)
      /\ page' = "open"
      /\ values' = iv
      /\ errors' = NoErrors
      /\ touched' = {}
      /\ isSubmitting' = FALSE
      /\ initialValues' = iv
      /\ constructedWith' = iv
      /\ inFlight' = <<>>
      /\ formCall' = FormCall("none", "", "undefined", <<>>)
      /\ UNCHANGED <<events, storeVars, pureVars>>

\* the render of what the load effect dispatched, UserPage being mounted:
\* the page renders again with the new users, and useForm is called with
\* the initialValues of that render; useState keeps editingId and values
RenderUserPage ==
  /\ page = "open"
  /\ queued.has /\ ~loadPending /\ ~savePending /\ ~crashed
  /\ Dispatch(queued.action)
  /\ queued' = NoDispatch
  /\ initialValues' = InitialValuesOf(currentUserOf(users', params))
  /\ UNCHANGED <<slot, now, loadPending, lastCall, calls, startSlot>>
  /\ UNCHANGED <<values, errors, touched, isSubmitting, constructedWith, inFlight,
                 formCall, events, pureVars, pageVars>>

\* the submit event of the form, onSubmit={handleSubmit(onSubmit)}, up to the
\* await of handleSubmit: onSubmit has no await of its own, so its body, the
\* action of the store it calls included, runs before handleSubmit suspends
onSubmit(random) ==
  LET allTouched == RuleFields
      newErrors == newErrorsOf(values)
      passed == DOMAIN newErrors = {}
      editing == editingId # NullId
      userData == Spread(values, [id |-> IF editing THEN editingId ELSE toString10(now)])
      validation == validateUser(userData)
      newUser == Spread(userData, [id |-> generateId(now, random), createdAt |-> now])
      updatedUser == Spread(userData, [id |-> editingId, updatedAt |-> now])
  IN  /\ page = "open" /\ ~isSubmitting /\ Ready
      /\ IF ~passed
         THEN /\ touched' = allTouched
              /\ errors' = newErrors
              /\ formCall' = FormCall("handleSubmit", "", "undefined", <<>>)
              /\ UNCHANGED <<values, isSubmitting, inFlight, initialValues, storeVars, pageVars>>
         ELSE /\ Called
              /\ formCall' = FormCall("handleSubmit", "", "undefined", <<values>>)
              /\ inFlight' = Append(inFlight, values)
              /\ UNCHANGED <<slot, now, loadPending, queued, startSlot>>
              /\ IF ~validation.isValid
                 \* the action throws, and the catch of onSubmit shows the error
                 THEN /\ Dispatch([type |-> "SET_ERROR", payload |-> validation.errors])
                      /\ lastCall' = Call(IF editing THEN "updateUser" ELSE "addUser",
                                          IF editing THEN editingId ELSE Undefined, TRUE)
                      /\ touched' = allTouched
                      /\ errors' = newErrors
                      /\ isSubmitting' = TRUE
                      /\ UNCHANGED <<values, initialValues, pageVars>>
                 ELSE IF editing
                 \* updateUser(editingId, userData), and navigate('/users') if (id)
                 THEN /\ Dispatch([type |-> "UPDATE_USER", payload |-> updatedUser])
                      /\ lastCall' = Call("updateUser", editingId, FALSE)
                      /\ touched' = allTouched
                      /\ errors' = newErrors
                      /\ isSubmitting' = TRUE
                      /\ page' = IF Falsy(Get(params, "id")) THEN page ELSE "left"
                      /\ initialValues' = InitialValuesOf(currentUserOf(users', params))
                      /\ UNCHANGED <<values, params, editingId>>
                 \* addUser(userData), resetForm() and setEditingId(null)
                 ELSE /\ Dispatch([type |-> "ADD_USER", payload |-> newUser])
                      /\ lastCall' = Call("addUser", Undefined, FALSE)
                      /\ values' = initialValues
                      /\ errors' = NoErrors
                      /\ touched' = {}
                      /\ isSubmitting' = FALSE
                      /\ initialValues' = InitialValuesOf(currentUserOf(users', params))
                      /\ editingId' = NullId
                      /\ UNCHANGED <<params, page>>
      /\ UNCHANGED <<constructedWith, events, pureVars>>

\* what the user types into the inputs of the page
PageChangeSamples == {
  [name |-> "name", value |-> NameAna, type |-> "text"],
  [name |-> "email", value |-> EmailAna, type |-> "email"],
  [name |-> "phone", value |-> PhoneAna, type |-> "tel"],
  [name |-> "phone", value |-> <<>>, type |-> "tel"]}

\* the URLs the page is opened at: /user, /user/1 and /user/<the id of the
\* persisted record>
ParamsSamples == {
  [k \in {} |-> <<>>],
  [id |-> initialState.users.items[1].id],
  [id |-> PersistedUsers.items[1].id]}

\* the provider has rendered initialState over a missing slot or over a
\* persisted collection; UserPage is not mounted yet
PageInit ==
  /\ users = initialState.users
  /\ error = initialState.error
  /\ slot \in {Missing, Holding(stringify(PersistedUsers))}
  /\ now = ClockStart
  /\ loadPending = TRUE
  /\ queued = NoDispatch
  /\ savePending = TRUE
  /\ crashed = FALSE
  /\ lastCall = Call("none", Undefined, FALSE)
  /\ calls = 0
  /\ startSlot = slot
  /\ Constructed(InitialValuesOf(NoCurrentUser))
  /\ NotApplied
  /\ PageClosed

PageNext ==
  \/ LoadEffect
  \/ SaveEffect
  \/ page # "open" /\ Render
  \/ RenderUserPage
  \/ \E ps \in ParamsSamples : OpenUserPage(ps)
  \/ page = "open" /\ Ready /\ \E target \in PageChangeSamples : handleChange(target)
  \/ \E random \in RandomSamples : onSubmit(random)
  \/ page = "open" /\ onSubmitSettled(1, "fulfilled")

PageSpec == PageInit /\ [][PageNext]_vars

(***************************************************************************)
(* The two gates applied on their own to the same name, email and phone:   *)
(* UserService.validateUser and the rules UserPage gives to useForm.       *)
(***************************************************************************)
RulePhoneSamples ==
  (PhoneSamples \ {Absent}) \cup {
    <<"9", "1", "2", "\t", "3", "4", "5", "\t", "6", "7", "8", "9">>,
    <<"9", "1", "2", "3", "4", "5", "6", "7", "8", "9", "a">>,
    <<"9", "1", "2", ".", "3", "4", "5", ".", "6", "7", "8", "9">>,
    <<"+", "-", "(", ")", " ">>,
    <<"1", "2", "3", "4", "5", "6", "7", "8", "9", "0", "1">>}

GatesInit ==
  /\ \E n \in NameSamples \ {Absent} : \E e \in EmailSamples \ {Absent} :
       \E p \in RulePhoneSamples : argument = [name |-> n, email |-> e, phone |-> p]
  /\ returned = NotReturned
  /\ StoreIdle
  /\ Constructed(InitialValuesOf(NoCurrentUser))
  /\ PageClosed

\* the record goes through both gates: the errors validateUser reports, the
\* errors validateForm would record for the same values, and what the phone
\* rule returns for the phone
CallGates ==
  /\ ~returned.applied
  /\ returned' = Returning([store |-> validateUser(argument).errors,
                            form |-> newErrorsOf(argument),
                            phoneRule |-> rulePhone(argument.phone)])
  /\ UNCHANGED <<argument, storeVars, formVars, pageVars>>

GatesNext == CallGates

GatesSpec == GatesInit /\ [][GatesNext]_vars

(***************************************************************************)
(* What the claims speak of.                                               *)
(***************************************************************************)
\* the store holds a collection: state.users is an array
HoldsCollection == users.t = "array"
\* the mount, its effects and the render of what they dispatched are over
InitDone == ~loadPending /\ ~queued.has /\ ~savePending
\* the data passes record-level validation
Valid(userData) == FailingFields(userData) = {}
\* the ids of the records of a collection, in order
IdsOf(items) == [i \in 1..Len(items) |-> Get(items[i], "id")]
\* the step is a call of the action op
IsCallOf(op) == calls' = calls + 1 /\ lastCall'.op = op
\* the keys addUser and updateUser set themselves
Without(userData, keys) == DOMAIN userData \ keys

(***************************************************************************)
(* C1: addUser and updateUser with data that fails record-level            *)
(* validation leave the collection as it was (same records, same order,    *)
(* same length), write nothing to the slot and schedule no write of it.    *)
(***************************************************************************)
C1_InvalidDataLeavesCollectionAndSlot ==
  [][\A i \in 1..Len(UserDataSamples) :
       LET userData == UserDataSamples[i]
       IN  (/\ \/ /\ IsCallOf("addUser")
                  /\ \E random \in RandomSamples : addUser(userData, random)
               \/ /\ IsCallOf("updateUser")
                  /\ updateUser(lastCall'.id, userData)
            /\ ~Valid(userData))
           => /\ users' = users
              /\ slot' = slot
              /\ savePending' = savePending
              /\ lastCall'.threw]_vars

\* an invalid addUser and an invalid updateUser have been refused
C1_Witness ==
  /\ lastCall.threw
  /\ lastCall.op \in {"addUser", "updateUser"}
  /\ error.set
  /\ HoldsCollection /\ Len(users.items) > 0


(***************************************************************************)
(* C2: addUser with valid data appends exactly one record at the end of    *)
(* the collection; the record carries the field values of the data, a      *)
(* createdAt, and a generated id that differs from the id of every record  *)
(* already in the collection, whatever id the data holds; the records that *)
(* were there are unchanged and keep their order.                          *)
(***************************************************************************)
C2_CreateAppendsRecordWithFreshId ==
  [][(HoldsCollection /\ IsCallOf("addUser"))
     => \A i \in 1..Len(UserDataSamples) : \A random \in RandomSamples :
          LET userData == UserDataSamples[i]
              n == Len(users.items)
          IN  (Valid(userData) /\ addUser(userData, random))
              => /\ Len(users'.items) = n + 1
                 /\ SubSeq(users'.items, 1, n) = users.items
                 /\ LET created == users'.items[n + 1]
                    IN  /\ \A k \in Without(userData, {"id", "createdAt"}) :
                              k \in DOMAIN created /\ created[k] = userData[k]
                        /\ "createdAt" \in DOMAIN created
                        /\ "id" \in DOMAIN created
                        /\ \A j \in 1..n : Get(users.items[j], "id") # created.id]_vars

(***************************************************************************)
(* C3: updateUser(id, data) with valid data replaces the record whose id   *)
(* is id by exactly the fields of data, id = the given id and updatedAt:   *)
(* fields of the old record that data lacks are dropped and an id inside   *)
(* data does not override the given id.  Records with another id, the      *)
(* length and the order of the collection are unchanged.                   *)
(***************************************************************************)
C3_UpdateReplacesWholesale ==
  [][(HoldsCollection /\ IsCallOf("updateUser"))
     => \A i \in 1..Len(UserDataSamples) :
          LET userData == UserDataSamples[i]
              id == lastCall'.id
          IN  (Valid(userData) /\ updateUser(id, userData))
              => /\ users'.t = "array"
                 /\ Len(users'.items) = Len(users.items)
                 /\ \A j \in 1..Len(users.items) :
                      LET old == users.items[j]
                          new == users'.items[j]
                      IN  IF Get(old, "id") = id
                          THEN /\ DOMAIN new = DOMAIN userData \cup {"id", "updatedAt"}
                               /\ new.id = id
                               /\ \A k \in Without(userData, {"id", "updatedAt"}) :
                                     new[k] = userData[k]
                          ELSE new = old]_vars

\* record '2' has been replaced by form data that holds the id '1' and no
\* createdAt: it kept its id and lost its createdAt; record '1' is as it was
C3_Witness ==
  /\ HoldsCollection
  /\ lastCall = Call("updateUser", <<"2">>, FALSE)
  /\ Len(users.items) = 2
  /\ users.items[1] = initialState.users.items[1]
  /\ users.items[2].id = <<"2">>
  /\ users.items[2].name = NameAna
  /\ "updatedAt" \in DOMAIN users.items[2]
  /\ "createdAt" \notin DOMAIN users.items[2]

(***************************************************************************)
(* C4: deleteUser(id) removes every record whose id is id and leaves the   *)
(* other records and their order unchanged; when no record has the id it   *)
(* changes nothing and raises nothing; and a second deleteUser(id) right   *)
(* after the first leaves the collection as the first left it.             *)
(***************************************************************************)
C4_DeleteRemovesAndIsIdempotent ==
  [][(HoldsCollection /\ IsCallOf("deleteUser"))
     => LET id == lastCall'.id
        IN  deleteUser(id)
            => /\ users'.t = "array"
               /\ users'.items = SelectSeq(users.items, LAMBDA u : Get(u, "id") # id)
               /\ ~lastCall'.threw
               /\ crashed' = crashed
               /\ (\A j \in 1..Len(users.items) : Get(users.items[j], "id") # id)
                    => users' = users
               /\ lastCall = Call("deleteUser", id, FALSE) => users' = users]_vars

\* a record of the seed has been deleted, and then an id that no record has
C4_Witness ==
  /\ HoldsCollection
  /\ lastCall = Call("deleteUser", MissingId, FALSE)
  /\ calls = 2
  /\ users.items = <<initialState.users.items[2]>>


(***************************************************************************)
(* C5: after every successful addUser, updateUser (also one whose id no    *)
(* record has) or deleteUser, once the save effect has run, the slot holds *)
(* the serialization of the whole current collection, the empty collection *)
(* included.                                                               *)
(***************************************************************************)
C5_SlotHoldsCollectionAfterMutation ==
  (/\ HoldsCollection /\ InitDone /\ ~crashed
   /\ lastCall.op \in {"addUser", "updateUser", "deleteUser"}
   /\ ~lastCall.threw)
  => slot = Holding(stringify(users))

(***************************************************************************)
(* C6: round trip: for every collection addUser, updateUser and deleteUser *)
(* reach, once the save effect has run, a fresh provider initialized from  *)
(* the slot holds an equal collection: same records, same values, same     *)
(* order.                                                                  *)
(***************************************************************************)
C6_FreshStoreLoadsTheCollection ==
  (HoldsCollection /\ InitDone /\ ~crashed /\ calls > 0 /\ ~lastCall.threw)
  => InitializedFrom(slot) = users

(***************************************************************************)
(* C7: when the slot is present at startup and holds no valid serialized   *)
(* array (unparseable text, or an object, a number or null), the           *)
(* initialization raises nothing and the collection is the seed.           *)
(***************************************************************************)
\* the slot is present and JSON.parse gives no array for it
HoldsNoArray(saved) ==
  saved.present /\ ~(parse(saved.text).ok /\ parse(saved.text).value.t = "array")

C7_InvalidSlotFallsBackToSeed ==
  (InitDone /\ calls = 0 /\ HoldsNoArray(startSlot))
  => (~crashed /\ users = initialState.users)

(***************************************************************************)
(* C8: when the slot is missing at startup, the collection after the       *)
(* initialization is the seed of two records, ids '1' and '2', and no      *)
(* error is raised.                                                        *)
(***************************************************************************)
C8_MissingSlotGivesSeed ==
  (InitDone /\ calls = 0 /\ ~startSlot.present)
  => /\ ~crashed
     /\ HoldsCollection
     /\ IdsOf(users.items) = << <<"1">>, <<"2">> >>
     /\ users = initialState.users

\* a provider has finished its initialization over a missing slot
C8_Witness ==
  /\ InitDone /\ calls = 0 /\ ~startSlot.present
  /\ Len(users.items) = 2
  /\ slot.present

(***************************************************************************)
(* C9: in every state that addUser, updateUser and deleteUser reach, no    *)
(* two records of the collection have the same id.                         *)
(***************************************************************************)
C9_IdsAreUnique ==
  HoldsCollection
  => \A i \in 1..Len(users.items) : \A j \in 1..Len(users.items) :
       i # j => Get(users.items[i], "id") # Get(users.items[j], "id")

(***************************************************************************)
(* C10: the createdAt of a record keeps its value for as long as the       *)
(* record is in the collection, across every step, updateUser included.    *)
(***************************************************************************)
C10_CreatedAtIsKept ==
  [][(HoldsCollection /\ calls' = calls + 1)
     => \A i \in 1..Len(users.items) : \A j \in 1..Len(users'.items) :
          (/\ "createdAt" \in DOMAIN users.items[i]
           /\ Get(users'.items[j], "id") = Get(users.items[i], "id"))
          => /\ "createdAt" \in DOMAIN users'.items[j]
             /\ users'.items[j].createdAt = users.items[i].createdAt]_vars


(***************************************************************************)
(* C11: when addUser or updateUser is called with data that fails          *)
(* record-level validation, the failure raised to the caller carries the   *)
(* field-to-message mapping validateUser returned for the data.            *)
(***************************************************************************)
C11_RaisedFailureCarriesFieldErrors ==
  [][\A i \in 1..Len(UserDataSamples) :
       LET userData == UserDataSamples[i]
       IN  (/\ ~Valid(userData)
            /\ \/ /\ IsCallOf("addUser")
                  /\ \E random \in RandomSamples : addUser(userData, random)
               \/ /\ IsCallOf("updateUser")
                  /\ updateUser(lastCall'.id, userData))
           => /\ lastCall'.threw
              /\ "errors" \in DOMAIN lastCall'.raised
              /\ lastCall'.raised.errors = validateUser(userData).errors]_vars

(***************************************************************************)
(* C12: validateUser returns isValid = true exactly when name is non-empty *)
(* after trim, email is non-empty after trim and has the shape             *)
(* local@domain.tld, phone is non-empty after trim and, whitespace         *)
(* removed, is an optional '+351' followed by exactly 9 digits, and        *)
(* userTypes is non-empty; the keys of errors are exactly the fields that  *)
(* fail, each with a message.                                              *)
(***************************************************************************)
\* the field is there and has a character that is not whitespace
C12_Filled(r, f) == f \in DOMAIN r /\ \E i \in 1..Len(r[f]) : r[f][i] \notin Whitespace

\* local@domain.tld: no whitespace, one '@' that is not the first character,
\* and after it a '.' that is neither next to the '@' nor the last character
C12_EmailShape(s) ==
  /\ \A i \in 1..Len(s) : s[i] \notin Whitespace
  /\ Cardinality({i \in 1..Len(s) : s[i] = "@"}) = 1
  /\ s[1] # "@"
  /\ LET at == CHOOSE i \in 1..Len(s) : s[i] = "@"
     IN  \E d \in (at + 2)..(Len(s) - 1) : s[d] = "."

\* whitespace aside: 9 digits, or '+351' and 9 digits
C12_PhoneShape(s) ==
  LET p == SelectSeq(s, LAMBDA c : c \notin Whitespace)
  IN  \/ Len(p) = 9 /\ \A i \in 1..9 : p[i] \in Digits
      \/ /\ Len(p) = 13
         /\ p[1] = "+" /\ p[2] = "3" /\ p[3] = "5" /\ p[4] = "1"
         /\ \A i \in 5..13 : p[i] \in Digits

C12_Failing(r) ==
  {f \in {"name"} : ~C12_Filled(r, f)}
  \cup {f \in {"email"} : ~(C12_Filled(r, f) /\ C12_EmailShape(r[f]))}
  \cup {f \in {"phone"} : ~(C12_Filled(r, f) /\ C12_PhoneShape(r[f]))}
  \cup {f \in {"userTypes"} : ~(f \in DOMAIN r /\ Len(r[f]) > 0)}

C12_ValidateUserReportsFailingFields ==
  returned.applied
    => /\ returned.value.isValid = (C12_Failing(argument) = {})
       /\ DOMAIN returned.value.errors = C12_Failing(argument)
       /\ \A f \in DOMAIN returned.value.errors : returned.value.errors[f] # ""

\* a record failing all four fields has been validated
C12_Witness ==
  /\ returned.applied
  /\ argument = RecordOf(<<>>, <<"b", "a", "d">>, <<"1", "2", "3">>, <<>>)
  /\ DOMAIN returned.value.errors = {"name", "email", "phone", "userTypes"}
  /\ ~returned.value.isValid

(***************************************************************************)
(* What the claims about the form speak of.                                *)
(***************************************************************************)
\* the step is a call of the operation op of the hook
IsFormCallOf(op) == events' = events + 1 /\ formCall'.op = op
\* the value v fails one of the rules of the field f
FailsARule(f, v) ==
  \E k \in 1..Len(formValidationRules[f]) : IsMessage(applyRule(formValidationRules[f][k], v))
\* m is the message of the first rule of f, in their order, that v fails
IsFirstFailure(f, v, m) ==
  \E k \in 1..Len(formValidationRules[f]) :
     /\ m = applyRule(formValidationRules[f][k], v)
     /\ IsMessage(m)
     /\ \A j \in 1..(k - 1) : ~IsMessage(applyRule(formValidationRules[f][j], v))
\* the step is the completion of a pending onSubmit call
IsSettling == formCall'.op = "settled" /\ Len(inFlight') = Len(inFlight) - 1

(***************************************************************************)
(* C13: when the submit handler is invoked while the current value of a    *)
(* rule-bearing field fails one of its rules, onSubmit is not invoked by   *)
(* that invocation and the invocation does not set isSubmitting.           *)
(***************************************************************************)
C13_InvalidSubmitStops ==
  [][(/\ IsFormCallOf("handleSubmit")
      /\ \E f \in RuleFields : FailsARule(f, Get(values, f)))
     => /\ formCall'.invoked = <<>>
        /\ inFlight' = inFlight
        /\ isSubmitting' = isSubmitting]_vars

\* the empty form has been submitted
C13_Witness ==
  /\ formCall.op = "handleSubmit"
  /\ values = InitialValuesOf(NoCurrentUser)
  /\ inFlight = <<>>
  /\ ~isSubmitting

(***************************************************************************)
(* C14: when the submit handler is invoked with every rule-bearing field   *)
(* valid, it sets isSubmitting, calls onSubmit once, with the current      *)
(* values; and when that call settles, fulfilled or rejected, isSubmitting *)
(* is set back to false and the handler completes without raising.         *)
(***************************************************************************)
C14_ValidSubmitCallsOnceAndResets ==
  [][/\ (/\ IsFormCallOf("handleSubmit")
         /\ \A f \in RuleFields : ~FailsARule(f, Get(values, f)))
        => /\ isSubmitting'
           /\ formCall'.invoked = <<values>>
           /\ inFlight' = Append(inFlight, values)
     /\ IsSettling
        => /\ ~isSubmitting'
           /\ formCall'.returned = "fulfilled"]_vars

\* the onSubmit call of a valid submit was rejected
C14_Witness ==
  /\ formCall = FormCall("settled", "rejected", "fulfilled", <<>>)
  /\ inFlight = <<>>
  /\ ~isSubmitting
  /\ touched = RuleFields

(***************************************************************************)
(* C15: in every reachable state of the form, isSubmitting is true only if *)
(* a submit that passed validation has an onSubmit call that has not       *)
(* completed; it is false initially, after an invalid submit and after     *)
(* resetForm.                                                              *)
(***************************************************************************)
C15_SubmittingOnlyWhilePending ==
  /\ isSubmitting => Len(inFlight) > 0
  /\ formCall.op = "none" => ~isSubmitting
  /\ (formCall.op = "handleSubmit" /\ formCall.invoked = <<>>) => ~isSubmitting
  /\ formCall.op = "resetForm" => ~isSubmitting

\* C15 as amended: after an invalid submit it is false unless an earlier
\* submit that passed validation has not completed
C15_SubmittingOnlyWhilePendingAmended ==
  /\ isSubmitting => Len(inFlight) > 0
  /\ formCall.op = "none" => ~isSubmitting
  /\ (formCall.op = "handleSubmit" /\ formCall.invoked = <<>> /\ inFlight = <<>>)
       => ~isSubmitting
  /\ formCall.op = "resetForm" => ~isSubmitting

\* the form was reset while an onSubmit call was pending
C15_Witness ==
  /\ formCall.op = "resetForm"
  /\ Len(inFlight) = 1
  /\ ~isSubmitting

(***************************************************************************)
(* C16: for every submit that passed validation, isSubmitting stays true   *)
(* until the onSubmit call of that submit has resolved, whatever happens   *)
(* meanwhile: a second submit, setValue, handleBlur, resetForm.            *)
(***************************************************************************)
C16_FlagHeldUntilOwnCallback ==
  Len(inFlight) > 0 => isSubmitting

\* C16 as amended: isSubmitting is reset only by resetForm and by the
\* completion of a pending onSubmit call, that of the submit or of another;
\* no other operation of the hook resets it
C16_FlagResetOnlyByCompletionOrReset ==
  [][(isSubmitting /\ ~isSubmitting') => (IsSettling \/ IsFormCallOf("resetForm"))]_vars

\* a second submit was made, and was invalid, while the first was pending
C16_Witness ==
  /\ formCall.op = "handleSubmit"
  /\ formCall.invoked = <<>>
  /\ Len(inFlight) = 1
  /\ isSubmitting

(***************************************************************************)
(* C17: when an onSubmit call resolves after the form has been reset, the  *)
(* completion of the submit handler leaves values, errors and touched as   *)
(* they are and only writes isSubmitting = false.                          *)
(***************************************************************************)
C17_StaleCompletionOnlyResetsFlag ==
  [][IsSettling
     => /\ values' = values
        /\ errors' = errors
        /\ touched' = touched
        /\ initialValues' = initialValues
        /\ ~isSubmitting']_vars

\* the form was reset after its submit (touched is empty again), and then
\* the onSubmit call resolved
C17_Witness ==
  /\ formCall.op = "settled"
  /\ inFlight = <<>>
  /\ touched = {}
  /\ values = initialValues
  /\ ~isSubmitting

(***************************************************************************)
(* C18: after an invocation of the submit handler every rule-bearing field *)
(* is in touched; so after an invalid submit, for every rule-bearing field *)
(* whose value fails a rule, getFieldProps(field).error is the message of  *)
(* the first rule it fails, blurred or not.                                *)
(***************************************************************************)
C18_SubmitTouchesRuleFields ==
  formCall.op = "handleSubmit"
    => /\ RuleFields \subseteq touched
       /\ formCall.invoked = <<>>
            => \A f \in RuleFields :
                 FailsARule(f, Get(values, f))
                   => IsFirstFailure(f, Get(values, f), getFieldProps(f).error)

\* the empty form was submitted before any blur
C18_Witness ==
  /\ formCall.op = "handleSubmit"
  /\ events = 1
  /\ getFieldProps("name").error = MsgRequired
  /\ getFieldProps("email").error = MsgRequired
  /\ getFieldProps("phone").error = MsgRequired

(***************************************************************************)
(* C19: validateForm() replaces errors wholesale: errors then has an entry *)
(* exactly for each rule-bearing field whose value fails a rule, that      *)
(* entry is the message of the first rule failing, in the field's rule     *)
(* order, and is what validateField(field, values[field]) returns; no      *)
(* earlier entry survives; and validateForm returns true iff errors is     *)
(* then empty.                                                             *)
(***************************************************************************)
C19_ValidateFormReplacesErrors ==
  [][IsFormCallOf("validateForm")
     => LET failing == {f \in RuleFields : FailsARule(f, Get(values, f))}
        IN  /\ DOMAIN errors' = failing
            /\ \A f \in failing :
                  /\ IsFirstFailure(f, Get(values, f), errors'[f])
                  /\ errors'[f] = validateFieldReturns(f, Get(values, f))
            /\ \A f \in RuleFields \ failing :
                  validateFieldReturns(f, Get(values, f)) = Null
            /\ formCall'.returned = (IF errors' = NoErrors THEN "true" ELSE "false")
            /\ values' = values]_vars

\* validateForm found an email that passes required and fails email
C19_Witness ==
  /\ formCall.op = "validateForm"
  /\ formCall.returned = "false"
  /\ values.email = <<"b", "a", "d">>
  /\ ErrorAt(errors, "email") = MsgEmailInvalid
  /\ ErrorAt(errors, "name") = MsgRequired

(***************************************************************************)
(* C20: setValue(field, value) sets values[field] to value and, if         *)
(* errors[field] holds a message, clears it without running a rule; the    *)
(* values and errors of the other fields, touched and isSubmitting are     *)
(* unchanged.                                                              *)
(***************************************************************************)
C20_SetValueClearsOnlyItsError ==
  [][\A target \in ChangeSamples :
       (IsFormCallOf("handleChange") /\ handleChange(target))
         => LET f == target.name
            IN  /\ DOMAIN values' = DOMAIN values \cup {f}
                /\ values'[f] = target.value
                /\ \A k \in DOMAIN values \ {f} : values'[k] = values[k]
                /\ IF IsMessage(ErrorAt(errors, f))
                   THEN DOMAIN errors' = DOMAIN errors /\ errors'[f] = Null
                   ELSE errors' = errors
                /\ \A k \in DOMAIN errors \ {f} : errors'[k] = errors[k]
                /\ touched' = touched
                /\ isSubmitting' = isSubmitting]_vars

\* a blur recorded the error of the empty email, and the email was then
\* set to a value that fails the email rule
C20_Witness ==
  /\ formCall = FormCall("handleChange", "email", "undefined", <<>>)
  /\ values.email = <<"b", "a", "d">>
  /\ "email" \in touched
  /\ ErrorAt(errors, "email") = Null

(***************************************************************************)
(* C21: in every reachable state of the form, getFieldProps(field).error   *)
(* is null while field is not in touched, also when errors[field] holds a  *)
(* message, and is errors[field] once field is in touched: for a field     *)
(* whose value fails a rule it is absent while the field is untouched and  *)
(* is the message of the failing rule right after the handleBlur.          *)
(***************************************************************************)
C21_Gated ==
  \A f \in Fields :
     /\ f \notin touched => ~IsMessage(getFieldProps(f).error)
     /\ f \in touched => getFieldProps(f).error = ErrorAt(errors, f)

C21_ErrorShownOnlyOnceTouched ==
  [][/\ C21_Gated
     /\ C21_Gated'
     /\ IsFormCallOf("handleBlur")
        => \A f \in RuleFields :
             (formCall'.name = f /\ FailsARule(f, Get(values, f)))
               => IsFirstFailure(f, Get(values, f), (getFieldProps(f).error)')]_vars

\* validateForm recorded the errors of the empty form, and email was blurred
C21_Witness ==
  /\ formCall = FormCall("handleBlur", "email", "undefined", <<>>)
  /\ touched = {"email"}
  /\ ErrorAt(errors, "name") = MsgRequired
  /\ getFieldProps("name").error = Null
  /\ getFieldProps("email").error = MsgRequired

(***************************************************************************)
(* C22: after any sequence of events, resetForm() sets values back to the  *)
(* initialValues the form was constructed with, not to initial values      *)
(* computed by a later render, empties errors and touched, and sets        *)
(* isSubmitting to false.                                                  *)
(***************************************************************************)
C22_ResetRestoresConstructionValues ==
  [][IsFormCallOf("resetForm")
     => /\ values' = constructedWith
        /\ errors' = NoErrors
        /\ touched' = {}
        /\ ~isSubmitting']_vars

(***************************************************************************)
(* C23: touched only grows: across every event other than resetForm, a     *)
(* field that was in touched before the event is in touched after it, a    *)
(* blurred field without rules at a submit included.                       *)
(***************************************************************************)
C23_TouchedOnlyGrows ==
  [][~IsFormCallOf("resetForm") => touched \subseteq touched']_vars

(***************************************************************************)
(* C24: a field has a message in errors only if the most recent validation *)
(* run covering it (validateField for it, handleBlur on it, validateForm)  *)
(* failed for it and no setValue on it happened since; and errors never    *)
(* holds a message for a field without rules.  Step by step: a validation  *)
(* run covering a field leaves a message for it exactly when it fails, a   *)
(* setValue on a field leaves no message for it, and no other step puts a  *)
(* message where there was none or changes one.                            *)
(***************************************************************************)
C24_MessageOnlyAfterFailedValidation ==
  [][\A f \in Fields :
       LET covered == \/ IsFormCallOf("validateForm")
                      \/ IsFormCallOf("handleSubmit")
                      \/ /\ IsFormCallOf("handleBlur") \/ IsFormCallOf("validateField")
                         /\ formCall'.name = f
           set == /\ IsFormCallOf("handleChange") \/ IsFormCallOf("handleUserTypeChange")
                  /\ formCall'.name = f
       IN  /\ f \notin RuleFields => ~IsMessage(ErrorAt(errors', f))
           /\ (f \in RuleFields /\ covered)
                => (IsMessage(ErrorAt(errors', f)) <=> FailsARule(f, Get(values, f)))
           /\ set => ~IsMessage(ErrorAt(errors', f))
           /\ (~covered /\ IsMessage(ErrorAt(errors', f)))
                => ErrorAt(errors', f) = ErrorAt(errors, f)]_vars

\* validateForm recorded the errors of the empty form, and name was then set
C24_Witness ==
  /\ formCall = FormCall("handleChange", "name", "undefined", <<>>)
  /\ values.name = NameAna
  /\ ErrorAt(errors, "name") = Null
  /\ ErrorAt(errors, "email") = MsgRequired
  /\ touched = {}

(***************************************************************************)
(* C25: in every reachable state of the form, hasErrors is true iff some   *)
(* field has a recorded non-empty message, and isValid is true iff there   *)
(* are no rule-bearing fields or none of them has a recorded message; so   *)
(* with a rule-bearing field, exactly one of hasErrors and isValid is      *)
(* true.                                                                   *)
(***************************************************************************)
C25_HasErrorsAndIsValid ==
  LET recorded(f) == f \in DOMAIN errors /\ errors[f] \notin {Null, "undefined", ""}
  IN  /\ hasErrors <=> \E f \in Fields : recorded(f)
      /\ isValid <=> (RuleFields = {} \/ \A f \in RuleFields : ~recorded(f))
      /\ RuleFields # {} => (hasErrors <=> ~isValid)

\* the error a blur recorded for name was cleared by a setValue: errors has
\* a null entry, and email has a message after its blur
C25_Witness ==
  /\ "name" \in DOMAIN errors
  /\ errors.name = Null
  /\ ErrorAt(errors, "email") = MsgRequired
  /\ hasErrors
  /\ ~isValid

(***************************************************************************)
(* C26: the gate of the store is stricter than the rules of the form: for  *)
(* every name, email and phone that record-level validation accepts, the   *)
(* form rules of name, email and phone accept them too; so every phone the *)
(* store accepts, the phone rule of the form accepts.                      *)
(***************************************************************************)
C26_StoreGateStricterThanForm ==
  returned.applied
    => /\ DOMAIN returned.value.store \cap {"name", "email", "phone"} = {}
            => returned.value.form = NoErrors
       /\ "phone" \notin DOMAIN returned.value.store
            => returned.value.phoneRule = Null

(***************************************************************************)
(* C27: the phone rule of the form passes a non-empty string exactly when  *)
(* it has at least 10 digits once its non-digits are stripped and consists *)
(* only of digits, space, hyphen, plus and parentheses; every other        *)
(* non-empty string fails, and the empty value passes.                     *)
(***************************************************************************)
\* the number of digits of s
C27_DigitCount(s) == Cardinality({i \in 1..Len(s) : s[i] \in Digits})

C27_PhoneRulePasses ==
  returned.applied
    => LET v == argument.phone
           allowed == Digits \cup {" ", "-", "+", "(", ")"}
       IN  (returned.value.phoneRule = Null)
             <=> \/ v = <<>>
                 \/ /\ C27_DigitCount(v) >= 10
                    /\ \A i \in 1..Len(v) : v[i] \in allowed

\* C27 as amended: the characters let through are the digits, the
\* whitespace characters (the tab too), hyphen, plus and parentheses
C27_PhoneRulePassesAmended ==
  returned.applied
    => LET v == argument.phone
           allowed == Digits \cup Whitespace \cup {"-", "+", "(", ")"}
       IN  (returned.value.phoneRule = Null)
             <=> \/ v = <<>>
                 \/ /\ C27_DigitCount(v) >= 10
                    /\ \A i \in 1..Len(v) : v[i] \in allowed

\* a phone of exactly 10 digits with parentheses, a space and a hyphen passed
C27_Witness ==
  /\ returned.applied
  /\ argument.phone = <<"(", "1", "2", "3", ")", " ", "4", "5", "6", "-", "7", "8", "9", "0">>
  /\ returned.value.phoneRule = Null

(***************************************************************************)
(* C28: the slot is written only as a consequence of a mutating operation: *)
(* before the first call of addUser, updateUser or deleteUser the slot is  *)
(* what it was when the application started, and a slot that held          *)
(* persisted records never holds the seed records during startup.          *)
(***************************************************************************)
C28_NoWriteDuringInitialization ==
  calls = 0
    => /\ slot = startSlot
       /\ startSlot = Holding(stringify(PersistedUsers))
            => slot # Holding(stringify(initialState.users))

(***************************************************************************)
(* C29: whenever UserPage is opened at /user/:id for an id of the          *)
(* persisted collection, the page is in edit mode for that record: the     *)
(* form is seeded with the values of the persisted record, and a submit    *)
(* that passes validation calls updateUser(id, ...) and never addUser,     *)
(* whether the page first renders before or after the store loaded the     *)
(* collection from the slot.                                               *)
(***************************************************************************)
\* the page is open at the id of the record the slot held at startup
C29_OpenAtPersistedId ==
  /\ startSlot = Holding(stringify(PersistedUsers))
  /\ page = "open"
  /\ Get(params, "id") = PersistedUsers.items[1].id

C29_EditModeForPersistedId ==
  [][/\ C29_OpenAtPersistedId'
          => /\ editingId' = params'.id
             /\ constructedWith' = InitialValuesOf(PersistedUsers.items[1])
     /\ (C29_OpenAtPersistedId /\ calls' = calls + 1)
          => /\ lastCall'.op = "updateUser"
             /\ lastCall'.id = params.id]_vars

(***************************************************************************)
(* C30: in every state reached from the seed by calls of addUser,          *)
(* updateUser and deleteUser, failing or not, every record of the          *)
(* collection passes validateUser: none has an empty name, a malformed     *)
(* email, a malformed phone or no userTypes.                               *)
(***************************************************************************)
C30_EveryRecordPassesValidation ==
  (startSlot = Missing /\ HoldsCollection)
    => \A i \in 1..Len(users.items) :
         /\ validateUser(users.items[i]).isValid
         /\ FailingFields(users.items[i]) = {}

\* a record was added to the seed, and the update that followed failed
C30_Witness ==
  /\ startSlot = Missing
  /\ HoldsCollection
  /\ Len(users.items) = Len(initialState.users.items) + 1
  /\ lastCall.op = "updateUser"
  /\ lastCall.threw
  /\ calls = 2

====
